---------------------------- MODULE Spec2Model ----------------------------
(***************************************************************************)
(* Model of notifier/notification.go of prometheus-webhook-dingtalk:       *)
(*   - DingNotificationBuilder.Build / ResolvedTmpl (rendering),           *)
(*   - DingNotificationBuilder.Buildv2 (length-bounded batch splitting),   *)
(*   - SendNotification / SendNotificationV2 (signing and transport).      *)
(*                                                                         *)
(* A byte slice is modelled by what it spells: a serialized notification   *)
(* is the record of its JSON members together with its byte length.  The   *)
(* text of a notification is the list of per-alert fragments that the      *)
(* content template ranges over, in the order of m.Alerts.                 *)
(***************************************************************************)
EXTENDS Integers, Sequences, FiniteSets, TLC

(***************************************************************************)
(* Bounds of the model.                                                    *)
(***************************************************************************)
MaxAlerts == 3

(***************************************************************************)
(* Program constants.                                                      *)
(***************************************************************************)
MAX_MESSAGE_LENGTH == 20000

\* len(`{"msgtype":"markdown","markdown":{"title":"","text":""}}`)
EnvelopeLen == 56
\* len(`,"at":{"isAtAll":true}`), present only with a mention directive
AtLen == 22
\* len of the rendered title, "[FIRING:n]  " for a one-digit n and no labels
TitleLen == 12

\* Rendered length of a one-alert message without a mention is Base + size.
Base == EnvelopeLen + TitleLen

\* Sizes of one alert's fragment of the rendered text.  Chosen so that a
\* one-alert rendering is 7000, MAX - 1, MAX or 25000 bytes.
AlertSizes ==
    { 7000 - Base,
      MAX_MESSAGE_LENGTH - 1 - Base,
      MAX_MESSAGE_LENGTH - Base,
      25000 - Base }

Stages == {"title", "text", "encoding"}

NoFault == [first |-> 0, n |-> 0, stage |-> "none"]

\* A fault makes the rendering of exactly one alert range fail at one stage:
\* the range of n alerts that begins with the alert whose id is `first`.
Faults(k) ==
    {NoFault} \cup
    { x \in [first : 1..k, n : 1..k, stage : Stages] :
        x.first + x.n - 1 <= k }

VARIABLES
    m,          \* the caller's *models.WebhookMessage
    entry,      \* the value *m had when Buildv2 was called
    target,     \* *config.Target: [Mention, Secret, URL]
    tmpl,       \* r.tmpl with r.titleTpl / r.textTpl: where rendering fails
    pc,         \* position of Buildv2: "start", "loop", "done"
    sendDatas,  \* Buildv2 local
    data,       \* Buildv2 local declared at line 94 (the outer `data`)
    oriLen,     \* Buildv2 local
    alerts,     \* Buildv2 local
    lastIndex,  \* Buildv2 local
    lastData,   \* Buildv2 local
    index,      \* Buildv2 loop variable; 0 until the loop is initialised
    ret,        \* what Buildv2 returned: [bodies, err]
    renders,    \* number of calls of ResolvedTmpl made by this Buildv2 call
    call,       \* the delivery call: [fn, notification, body]
    now,        \* time.Now() in milliseconds since the epoch
    sendPc,     \* position of the delivery call
    httpReq,    \* the *http.Request built by the call
    posted,     \* the requests handed to httpClient.Do, in order
    resp,       \* the *http.Response received
    bodyOps,    \* what has been done to resp.Body, in order
    pendingRet, \* the values of the return statement, before deferred calls
    sendRet,    \* what the delivery call returned: [resp, err]
    shared,     \* whether two Buildv2 invocations were given one instance
    msgs,       \* the Alerts field of the instance(s) they were given
    proc        \* the two invocations: position, locals, results

buildVars == <<m, entry, tmpl, pc, sendDatas, data, oriLen, alerts, lastIndex,
               lastData, index, ret, renders>>

sendVars == <<call, now, sendPc, httpReq, posted, resp, bodyOps, pendingRet,
              sendRet>>

concVars == <<shared, msgs, proc>>

vars == <<buildVars, target, sendVars, concVars>>

(***************************************************************************)
(* Values                                                                  *)
(***************************************************************************)
Nil == "nil"

\* A nil *models.DingTalkNotification.
NilNotification == [title |-> "", text |-> <<>>, at |-> "absent"]

\* []byte{} and a nil []byte: no members, zero length.
EmptyBytes == [title |-> "", text |-> <<>>, at |-> "absent", len |-> 0]

\* Go's len() of a byte slice.
BytesLen(b) == b.len

RECURSIVE SumSizes(_)
SumSizes(s) == IF s = <<>> THEN 0 ELSE Head(s).size + SumSizes(Tail(s))

\* alerts[lo:hi] of Go: elements lo .. hi-1, zero based.
Slice(s, lo, hi) == SubSeq(s, lo + 1, hi)

(***************************************************************************)
(* Rendering                                                               *)
(***************************************************************************)
\* Whether rendering the alert sequence `as` is the one rendering that fails.
FaultHits(as) ==
    /\ tmpl.stage # "none"
    /\ as # <<>>
    /\ as[1].id = tmpl.first
    /\ Len(as) = tmpl.n

\* renderTitle: the subject line; its error is the template's.
renderTitle(msg) ==
    IF FaultHits(msg.Alerts) /\ tmpl.stage = "title"
    THEN [val |-> "", err |-> "title"]
    ELSE [val |-> "subject", err |-> Nil]

\* renderText: one fragment per alert of msg.Alerts, in order.
renderText(msg) ==
    IF FaultHits(msg.Alerts) /\ tmpl.stage = "text"
    THEN [val |-> <<>>, err |-> "text"]
    ELSE [val |-> msg.Alerts, err |-> Nil]

\* The `at` member built from r.target.Mention.
MentionOf(t) == IF t.Mention THEN "at" ELSE "absent"

\* json.Marshal of a DingTalkNotification.
Marshal(n) ==
    IF FaultHits(n.text) /\ tmpl.stage = "encoding"
    THEN [val |-> EmptyBytes, err |-> "encoding"]
    ELSE [val |-> [title |-> n.title, text |-> n.text, at |-> n.at,
                   len |-> EnvelopeLen + TitleLen + SumSizes(n.text)
                           + (IF n.at = "at" THEN AtLen ELSE 0)],
          err |-> Nil]

\* Build: the notification object, not serialized.
Build(msg) ==
    LET title == renderTitle(msg)
        content == renderText(msg)
    IN  IF title.err # Nil THEN [val |-> NilNotification, err |-> title.err]
        ELSE IF content.err # Nil THEN [val |-> NilNotification, err |-> content.err]
        ELSE [val |-> [title |-> title.val, text |-> content.val,
                       at |-> MentionOf(target)],
              err |-> Nil]

\* A plausible slip in ResolvedTmpl: the mention block is left out.
ResolvedTmplNoMention(msg) ==
    LET title == renderTitle(msg)
        content == renderText(msg)
    IN  IF title.err # Nil THEN [body |-> EmptyBytes, len |-> 0, err |-> title.err]
        ELSE IF content.err # Nil
             THEN [body |-> EmptyBytes, len |-> 0, err |-> content.err]
        ELSE LET notification ==
                     [title |-> title.val, text |-> content.val,
                      at |-> "absent"]
                 b == Marshal(notification)
             IN  IF b.err # Nil
                 THEN [body |-> EmptyBytes, len |-> 0,
                       err |-> "error encoding DingTalk request"]
                 ELSE [body |-> b.val, len |-> BytesLen(b.val), err |-> Nil]

\* ResolvedTmpl: render, attach the mention, serialize, measure.
ResolvedTmpl(msg) ==
    LET title == renderTitle(msg)
        content == renderText(msg)
    IN  IF title.err # Nil THEN [body |-> EmptyBytes, len |-> 0, err |-> title.err]
        ELSE IF content.err # Nil
             THEN [body |-> EmptyBytes, len |-> 0, err |-> content.err]
        ELSE LET notification ==
                     [title |-> title.val, text |-> content.val,
                      at |-> MentionOf(target)]
                 b == Marshal(notification)
             IN  IF b.err # Nil
                 THEN [body |-> EmptyBytes, len |-> 0,
                       err |-> "error encoding DingTalk request"]
                 ELSE [body |-> b.val, len |-> BytesLen(b.val), err |-> Nil]

(***************************************************************************)
(* URLs, requests and responses                                            *)
(***************************************************************************)
\* A url.URL: the part before "?" and the query, a list of key=value pairs
\* in the order they are written.
RobotURL(q) == [path |-> "https://oapi.dingtalk.com/robot/send", RawQuery |-> q]

\* The query keys of the model, in the byte order url.Values.Encode sorts by.
KeyOrder == <<"access_token", "sign", "timestamp">>

\* URL.Query(): the values of each key present, in order of appearance.
Query(u) ==
    [k \in {u.RawQuery[i][1] : i \in 1..Len(u.RawQuery)} |->
        LET hits == SelectSeq(u.RawQuery, LAMBDA kv : kv[1] = k)
        IN  [i \in 1..Len(hits) |-> hits[i][2]]]

\* url.Values.Set: the key's values are replaced by the one value.
QuerySet(qs, k, v) ==
    [x \in DOMAIN qs \cup {k} |-> IF x = k THEN <<v>> ELSE qs[x]]

RECURSIVE EncodeFrom(_, _)
EncodeFrom(qs, i) ==
    IF i > Len(KeyOrder) THEN <<>>
    ELSE (IF KeyOrder[i] \in DOMAIN qs
          THEN [j \in 1..Len(qs[KeyOrder[i]]) |->
                    <<KeyOrder[i], qs[KeyOrder[i]][j]>>]
          ELSE <<>>) \o EncodeFrom(qs, i + 1)

\* url.Values.Encode: key=value pairs sorted by key.
Encode(qs) == EncodeFrom(qs, 1)

\* base64(HMAC-SHA256(key = secret, message = timestamp + "\n" + secret)).
Signature(secret, timestamp) ==
    [base64hmac |-> [key |-> secret, message |-> <<timestamp, "\n", secret>>]]

\* Lines 169-181: the target URL with the signature parameters set.
SignedURL(u, secret, clock) ==
    IF secret # ""
    THEN LET timestamp == ToString(clock)
             qs == QuerySet(QuerySet(Query(u), "timestamp", timestamp),
                            "sign", Signature(secret, timestamp))
         IN  [u EXCEPT !.RawQuery = Encode(qs)]
    ELSE u

NoReq == [method |-> "", url |-> RobotURL(<<>>), contentType |-> "",
          body |-> EmptyBytes]

NoResp == [StatusCode |-> 0, content |-> "none"]

\* A nil *models.DingTalkNotificationResponse.
NilRobotResp == [set |-> FALSE, ErrorCode |-> 0, ErrorMessage |-> ""]

NoRet == [resp |-> NilRobotResp, err |-> Nil]

(***************************************************************************)
(* Buildv2                                                                 *)
(***************************************************************************)
\* The comparison of lines 98 and 112: a rendering that may be sent whole.
FitsLimit(l) == l < MAX_MESSAGE_LENGTH

\* A plausible slip: the batches accumulated so far are returned with the error.
ErrorReturnPartial(sd, err) == [bodies |-> sd, err |-> err]

\* `return nil, err` of lines 96 and 110: a nil slice of bodies.
ErrorReturn(sd, err) == [bodies |-> <<>>, err |-> err]

\* A plausible slip: the scan index is not advanced.
AdvanceStuck(i) == i

\* `index++` of line 106.
Advance(i) == i + 1

AlertSeqs(k) ==
    { [i \in 1..k |-> [id |-> i, size |-> f[i]]] : f \in [1..k -> AlertSizes] }

\* A WebhookMessage of one firing alert group with the given alerts.
Message(s) ==
    [Status |-> "firing",
     GroupLabels |-> [alertname |-> "HighLoad"],
     CommonLabels |-> [alertname |-> "HighLoad", severity |-> "page"],
     Alerts |-> s]

\* No delivery call is in progress.
SendIdle ==
    /\ call = [fn |-> "none", notification |-> NilNotification,
               body |-> EmptyBytes]
    /\ now = 0
    /\ sendPc = "idle"
    /\ httpReq = NoReq
    /\ posted = <<>>
    /\ resp = NoResp
    /\ bodyOps = <<>>
    /\ pendingRet = NoRet
    /\ sendRet = NoRet

(***************************************************************************)
(* Slice headers.  Buildv2 writes and reads the Alerts field of *m, a      *)
(* slice header over the backing array the message arrived with.           *)
(***************************************************************************)
Procs == {1, 2}

\* The header of a slice that spans the whole sequence s.
Header(s) == [off |-> 0, len |-> Len(s)]

\* The elements a header denotes in the backing array of the entry message.
Elems(h) == SubSeq(entry.Alerts, h.off + 1, h.off + h.len)

\* Whether a header lies within the backing array.
InBounds(h) == h.off + h.len <= Len(entry.Alerts)

\* s[lo:hi] on headers.
Reslice(h, lo, hi) == [off |-> h.off + lo, len |-> hi - lo]

IdleProc ==
    [pc |-> "idle", sendDatas |-> <<>>, data |-> EmptyBytes,
     alerts |-> Header(<<>>), lastIndex |-> 0, lastData |-> EmptyBytes,
     index |-> 0, ret |-> [bodies |-> <<>>, err |-> Nil],
     assigned |-> Header(<<>>), foreign |-> FALSE, overwritten |-> FALSE]

\* No concurrent invocations are in progress.
ConcIdle ==
    /\ shared = FALSE
    /\ msgs = [i \in Procs |->
                  [cur |-> Header(<<>>), prev |-> Header(<<>>), writer |-> 0]]
    /\ proc = [p \in Procs |-> IdleProc]

\* A builder for a target, about to run Buildv2 on a message.
Init ==
    /\ \E k \in 0..MaxAlerts :
         /\ \E s \in AlertSeqs(k) : m = Message(s)
         /\ tmpl \in Faults(k)
    /\ target \in [Mention : BOOLEAN, Secret : {""}, URL : {RobotURL(<<>>)}]
    /\ entry = m
    /\ SendIdle
    /\ ConcIdle
    /\ pc = "start"
    /\ sendDatas = <<>>
    /\ data = EmptyBytes
    /\ oriLen = 0
    /\ alerts = <<>>
    /\ lastIndex = 0
    /\ lastData = EmptyBytes
    /\ index = 0
    /\ ret = [bodies |-> <<>>, err |-> Nil]
    /\ renders = 0

\* Lines 93-105: render the whole message; return it when it is short
\* enough, otherwise set up the scan.
Buildv2Start ==
    /\ pc = "start"
    /\ LET r == ResolvedTmpl(m)
       IN  /\ renders' = renders + 1
           /\ IF r.err # Nil
              THEN /\ ret' = ErrorReturn(sendDatas, r.err)
                   /\ pc' = "done"
                   /\ UNCHANGED <<sendDatas, data, oriLen, alerts, lastIndex,
                                  lastData, index>>
              ELSE IF FitsLimit(r.len)
              THEN /\ data' = r.body
                   /\ oriLen' = r.len
                   /\ sendDatas' = Append(sendDatas, r.body)
                   /\ ret' = [bodies |-> sendDatas', err |-> Nil]
                   /\ pc' = "done"
                   /\ UNCHANGED <<alerts, lastIndex, lastData, index>>
              ELSE /\ data' = r.body
                   /\ oriLen' = r.len
                   /\ alerts' = m.Alerts
                   /\ lastIndex' = 0
                   /\ lastData' = EmptyBytes
                   /\ index' = 1
                   /\ pc' = "loop"
                   /\ UNCHANGED <<sendDatas, ret>>
    /\ UNCHANGED <<m, entry, target, tmpl, sendVars, concVars>>

\* Lines 106-125: one iteration of the scan.  The `data` assigned at line
\* 108 is a new variable of the loop body; the outer `data` is not touched.
Buildv2Iterate ==
    /\ pc = "loop"
    /\ index <= Len(alerts)
    /\ m' = [m EXCEPT !.Alerts = Slice(alerts, lastIndex, index)]
    /\ renders' = renders + 1
    /\ LET r == ResolvedTmpl(m')
       IN  IF r.err # Nil
           THEN /\ ret' = ErrorReturn(sendDatas, r.err)
                /\ pc' = "done"
                /\ UNCHANGED <<sendDatas, lastIndex, lastData, index>>
           ELSE IF FitsLimit(r.len)
           THEN /\ lastData' = r.body
                /\ index' = Advance(index)
                /\ UNCHANGED <<sendDatas, lastIndex, pc, ret>>
           ELSE IF BytesLen(lastData) # 0
           THEN /\ sendDatas' = Append(sendDatas, lastData)
                /\ lastIndex' = index - 1
                /\ lastData' = EmptyBytes
                /\ index' = Advance(index)
                /\ UNCHANGED <<pc, ret>>
           ELSE /\ sendDatas' = Append(sendDatas, r.body)
                /\ lastIndex' = index
                /\ index' = Advance(index)
                /\ UNCHANGED <<lastData, pc, ret>>
    /\ UNCHANGED <<entry, target, tmpl, data, oriLen, alerts, sendVars,
                   concVars>>

\* Lines 126-129: the flush after the scan, and the return.
Buildv2Finish ==
    /\ pc = "loop"
    /\ index > Len(alerts)
    /\ sendDatas' = IF BytesLen(lastData) # 0
                    THEN Append(sendDatas, data)
                    ELSE sendDatas
    /\ ret' = [bodies |-> sendDatas', err |-> Nil]
    /\ pc' = "done"
    /\ UNCHANGED <<m, entry, target, tmpl, data, oriLen, alerts, lastIndex, lastData,
                   index, renders, sendVars, concVars>>

Next ==
    \/ Buildv2Start
    \/ Buildv2Iterate
    \/ Buildv2Finish

Spec == Init /\ [][Next]_vars

\* Buildv2 runs on the calling goroutine and is never suspended for good.
FairSpec == Spec /\ WF_vars(Next)

(***************************************************************************)
(* SendNotification and SendNotificationV2                                 *)
(***************************************************************************)
\* Queries a configured robot URL may carry, stale signature keys included.
TargetQueries ==
    { <<>>,
      << <<"access_token", "tok">> >>,
      << <<"timestamp", "1">>, <<"access_token", "tok">> >>,
      << <<"sign", "old">>, <<"access_token", "tok">>, <<"sign", "older">> >> }

SampleNotification ==
    [title |-> "subject", text |-> <<[id |-> 1, size |-> 7000 - Base]>>,
     at |-> "absent"]

SampleBody ==
    [title |-> "subject", text |-> <<[id |-> 1, size |-> 7000 - Base]>>,
     at |-> "absent", len |-> 7000]

Calls ==
    { [fn |-> "SendNotification", notification |-> SampleNotification,
       body |-> EmptyBytes],
      [fn |-> "SendNotificationV2", notification |-> NilNotification,
       body |-> SampleBody] }

\* What the robot may answer: a status code and a body.
Responses == [StatusCode : {200, 500}, content : {"ok", "toolong", "garbage"}]

\* json.NewDecoder(resp.Body).Decode(&robotResp)
Decode(content) ==
    IF content = "ok"
    THEN [val |-> [set |-> TRUE, ErrorCode |-> 0, ErrorMessage |-> "ok"],
          err |-> Nil]
    ELSE IF content = "toolong"
    THEN [val |-> [set |-> TRUE, ErrorCode |-> 460101,
                   ErrorMessage |-> "message too long, exceed 20000 bytes"],
          err |-> Nil]
    ELSE [val |-> NilRobotResp, err |-> "invalid character"]

\* A plausible slip: the body is closed without being drained.
ReleaseBodyNoDrain(ops) == ops \o <<"close">>

\* The deferred function: io.Copy(ioutil.Discard, resp.Body), then
\* resp.Body.Close().
ReleaseBody(ops) == ops \o <<"drain", "close">>

\* A delivery call is about to run.
SendInit ==
    /\ m = Message(<<>>)
    /\ entry = m
    /\ ConcIdle
    /\ tmpl \in {NoFault, [first |-> 1, n |-> 1, stage |-> "encoding"]}
    /\ pc = "idle"
    /\ sendDatas = <<>>
    /\ data = EmptyBytes
    /\ oriLen = 0
    /\ alerts = <<>>
    /\ lastIndex = 0
    /\ lastData = EmptyBytes
    /\ index = 0
    /\ ret = [bodies |-> <<>>, err |-> Nil]
    /\ renders = 0
    /\ target \in [Mention : {FALSE}, Secret : {"", "abc"},
                   URL : {RobotURL(q) : q \in TargetQueries}]
    /\ call \in Calls
    /\ now \in {1000, 1001}
    /\ sendPc = "entry"
    /\ httpReq = NoReq
    /\ posted = <<>>
    /\ resp = NoResp
    /\ bodyOps = <<>>
    /\ pendingRet = NoRet
    /\ sendRet = NoRet

\* The call returns before any response exists: nothing is deferred.
ReturnEarly(err) ==
    /\ sendRet' = [resp |-> NilRobotResp, err |-> err]
    /\ sendPc' = "returned"

\* SendNotification, lines 167-192: sign, serialize, build the request.
SendNotificationEntry ==
    /\ sendPc = "entry"
    /\ call.fn = "SendNotification"
    /\ LET targetURL == SignedURL(target.URL, target.Secret, now)
           body == Marshal(call.notification)
       IN  IF body.err # Nil
           THEN /\ ReturnEarly("error encoding DingTalk request")
                /\ UNCHANGED httpReq
           ELSE \E built \in BOOLEAN :
                   IF ~built
                   THEN /\ ReturnEarly("error building DingTalk request")
                        /\ UNCHANGED httpReq
                   ELSE /\ httpReq' = [method |-> "POST", url |-> targetURL,
                                       contentType |-> "application/json",
                                       body |-> body.val]
                        /\ sendPc' = "do"
                        /\ UNCHANGED sendRet
    /\ UNCHANGED <<buildVars, concVars, target, call, now, posted, resp, bodyOps,
                   pendingRet>>

\* SendNotificationV2, lines 217-223: build the request for the given body.
SendNotificationV2Entry ==
    /\ sendPc = "entry"
    /\ call.fn = "SendNotificationV2"
    /\ LET targetURL == target.URL
       IN  \E built \in BOOLEAN :
               IF ~built
               THEN /\ ReturnEarly("error building DingTalk request")
                    /\ UNCHANGED httpReq
               ELSE /\ httpReq' = [method |-> "POST", url |-> targetURL,
                                   contentType |-> "application/json",
                                   body |-> call.body]
                    /\ sendPc' = "do"
                    /\ UNCHANGED sendRet
    /\ UNCHANGED <<buildVars, concVars, target, call, now, posted, resp, bodyOps,
                   pendingRet>>

\* httpClient.Do and the defer statement after it (lines 194-201, 225-232).
DoRequest(fn) ==
    /\ sendPc = "do"
    /\ call.fn = fn
    /\ posted' = Append(posted, httpReq)
    /\ \/ /\ ReturnEarly("error sending notification to DingTalk")
          /\ UNCHANGED resp
       \/ /\ resp' \in Responses
          /\ sendPc' = "resp"
          /\ UNCHANGED sendRet
    /\ UNCHANGED <<buildVars, concVars, target, call, now, httpReq, bodyOps, pendingRet>>

\* Status check and decoding, up to a return statement (lines 203-213,
\* 234-244).
HandleResponse(fn) ==
    /\ sendPc = "resp"
    /\ call.fn = fn
    /\ IF resp.StatusCode # 200
       THEN /\ pendingRet' =
                   [resp |-> NilRobotResp,
                    err |-> "unacceptable response code "
                            \o ToString(resp.StatusCode)]
            /\ UNCHANGED bodyOps
       ELSE LET robotResp == Decode(resp.content)
            IN  /\ bodyOps' = Append(bodyOps, "decode")
                /\ pendingRet' =
                       IF robotResp.err # Nil
                       THEN [resp |-> NilRobotResp,
                             err |-> "error decoding response from DingTalk"]
                       ELSE [resp |-> robotResp.val, err |-> Nil]
    /\ sendPc' = "defer"
    /\ UNCHANGED <<buildVars, concVars, target, call, now, httpReq, posted, resp,
                   sendRet>>

\* The deferred function runs, then the call returns (lines 198-201,
\* 229-232).
RunDeferred(fn) ==
    /\ sendPc = "defer"
    /\ call.fn = fn
    /\ bodyOps' = ReleaseBody(bodyOps)
    /\ sendRet' = pendingRet
    /\ sendPc' = "returned"
    /\ UNCHANGED <<buildVars, concVars, target, call, now, httpReq, posted, resp,
                   pendingRet>>

SendNotificationDo == DoRequest("SendNotification")
SendNotificationHandle == HandleResponse("SendNotification")
SendNotificationDeferred == RunDeferred("SendNotification")
SendNotificationV2Do == DoRequest("SendNotificationV2")
SendNotificationV2Handle == HandleResponse("SendNotificationV2")
SendNotificationV2Deferred == RunDeferred("SendNotificationV2")

SendNext ==
    \/ SendNotificationEntry
    \/ SendNotificationDo
    \/ SendNotificationHandle
    \/ SendNotificationDeferred
    \/ SendNotificationV2Entry
    \/ SendNotificationV2Do
    \/ SendNotificationV2Handle
    \/ SendNotificationV2Deferred

SendSpec == SendInit /\ [][SendNext]_vars

(***************************************************************************)
(* Two concurrent invocations of Buildv2                                   *)
(*                                                                         *)
(* Each invocation reads the Alerts field at lines 94 and 102 and inside   *)
(* ResolvedTmpl at line 108, and writes it at line 107, with no            *)
(* synchronization.  When both were given one instance these accesses      *)
(* race: a read may return the field as last written, the reader's own     *)
(* last write, or a header torn between the last two writes.               *)
(***************************************************************************)
\* A plausible slip of the caller: the clone is not made.
MsgOfNoClone(p) == 1

\* The instance invocation p was given: the one shared instance, or its own
\* clone.
MsgOf(p) == IF shared THEN 1 ELSE p

\* What a read of m.Alerts by invocation p may return.
Reads(p) ==
    LET c == msgs[MsgOf(p)]
    IN  {c.cur, proc[p].assigned} \cup
        (IF c.writer \notin {0, p}
         THEN {[off |-> c.cur.off, len |-> c.prev.len],
               [off |-> c.prev.off, len |-> c.cur.len]}
         ELSE {})

\* Buildv2 run alone on a message with the alerts `as`: lines 106-129.
RECURSIVE SoloScan(_, _, _, _, _, _)
SoloScan(as, li, i, ld, sd, full) ==
    IF i > Len(as)
    THEN [bodies |-> IF BytesLen(ld) # 0 THEN Append(sd, full) ELSE sd,
          err |-> Nil]
    ELSE LET r == ResolvedTmpl([Alerts |-> Slice(as, li, i)])
         IN  IF r.err # Nil THEN ErrorReturn(sd, r.err)
             ELSE IF FitsLimit(r.len)
             THEN SoloScan(as, li, i + 1, r.body, sd, full)
             ELSE IF BytesLen(ld) # 0
             THEN SoloScan(as, i - 1, i + 1, EmptyBytes, Append(sd, ld), full)
             ELSE SoloScan(as, i, i + 1, ld, Append(sd, r.body), full)

\* Buildv2 run alone on a message with the alerts `as`: lines 93-130.
SoloBuildv2(as) ==
    LET r == ResolvedTmpl([Alerts |-> as])
    IN  IF r.err # Nil THEN ErrorReturn(<<>>, r.err)
        ELSE IF FitsLimit(r.len) THEN [bodies |-> <<r.body>>, err |-> Nil]
        ELSE SoloScan(as, 0, 1, EmptyBytes, <<>>, r.body)

\* The alert sequences the concurrent invocations are run on: one-alert
\* renderings of 7000 or 25000 bytes.
ConcAlertSeqs(k) ==
    { s \in AlertSeqs(k) :
        \A i \in 1..k : s[i].size \in {7000 - Base, 25000 - Base} }

\* Two invocations are about to run on a message, on one instance or on a
\* clone each.
ConcInit ==
    /\ \E k \in 1..MaxAlerts :
         /\ \E s \in ConcAlertSeqs(k) : m = Message(s)
         /\ tmpl \in {NoFault, [first |-> k, n |-> 1, stage |-> "text"]}
    /\ entry = m
    /\ target \in [Mention : {FALSE}, Secret : {""}, URL : {RobotURL(<<>>)}]
    /\ SendIdle
    /\ pc = "idle"
    /\ sendDatas = <<>>
    /\ data = EmptyBytes
    /\ oriLen = 0
    /\ alerts = <<>>
    /\ lastIndex = 0
    /\ lastData = EmptyBytes
    /\ index = 0
    /\ ret = [bodies |-> <<>>, err |-> Nil]
    /\ renders = 0
    /\ shared \in BOOLEAN
    /\ msgs = [i \in Procs |->
                  [cur |-> Header(m.Alerts), prev |-> Header(m.Alerts),
                   writer |-> 0]]
    /\ proc = [p \in Procs |->
                  [IdleProc EXCEPT !.pc = "start",
                                   !.assigned = Header(m.Alerts)]]

\* The invocation read a header outside the backing array: the read of the
\* elements is out of bounds and the invocation returns nothing.
Crash(p, h) ==
    proc' = [proc EXCEPT ![p] = [@ EXCEPT !.pc = "crashed", !.foreign = TRUE]]

\* Invocation p, lines 93-101.
ConcStart(p) ==
    /\ proc[p].pc = "start"
    /\ \E h \in Reads(p) :
         IF ~InBounds(h) THEN Crash(p, h)
         ELSE LET r == ResolvedTmpl([Alerts |-> Elems(h)])
                  f == proc[p].foreign \/ h # proc[p].assigned
              IN  proc' = [proc EXCEPT ![p] =
                     IF r.err # Nil
                     THEN [@ EXCEPT !.pc = "done", !.foreign = f,
                                    !.ret = ErrorReturn(@, r.err)]
                     ELSE IF FitsLimit(r.len)
                     THEN [@ EXCEPT !.pc = "done", !.foreign = f,
                                    !.data = r.body,
                                    !.sendDatas = <<r.body>>,
                                    !.ret = [bodies |-> <<r.body>>,
                                             err |-> Nil]]
                     ELSE [@ EXCEPT !.pc = "setup", !.foreign = f,
                                    !.data = r.body]]
    /\ UNCHANGED <<buildVars, target, sendVars, shared, msgs>>

\* Invocation p, lines 102-104.
ConcSetup(p) ==
    /\ proc[p].pc = "setup"
    /\ \E h \in Reads(p) :
         IF ~InBounds(h) THEN Crash(p, h)
         ELSE proc' = [proc EXCEPT ![p] =
                  [@ EXCEPT !.pc = "loop",
                            !.foreign = @ \/ h # proc[p].assigned,
                            !.alerts = h, !.lastIndex = 0,
                            !.lastData = EmptyBytes, !.index = 1]]
    /\ UNCHANGED <<buildVars, target, sendVars, shared, msgs>>

\* Invocation p, lines 106-107: the assignment to m.Alerts.
ConcAssign(p) ==
    /\ proc[p].pc = "loop"
    /\ proc[p].index <= proc[p].alerts.len
    /\ LET new == Reslice(proc[p].alerts, proc[p].lastIndex, proc[p].index)
       IN  /\ msgs' = [msgs EXCEPT ![MsgOf(p)] =
                          [cur |-> new, prev |-> @.cur, writer |-> p]]
           /\ proc' = [proc EXCEPT ![p] =
                          [@ EXCEPT !.pc = "render", !.assigned = new]]
    /\ UNCHANGED <<buildVars, target, sendVars, shared>>

\* Invocation p, lines 108-124: the render reads m.Alerts.
ConcRender(p) ==
    /\ proc[p].pc = "render"
    /\ \E h \in Reads(p) :
         IF ~InBounds(h) THEN Crash(p, h)
         ELSE LET r == ResolvedTmpl([Alerts |-> Elems(h)])
                  q == [proc[p] EXCEPT
                            !.foreign = @ \/ h # proc[p].assigned,
                            !.overwritten = @ \/ h # proc[p].assigned]
              IN  proc' = [proc EXCEPT ![p] =
                     IF r.err # Nil
                     THEN [q EXCEPT !.pc = "done",
                                    !.ret = ErrorReturn(q.sendDatas, r.err)]
                     ELSE IF FitsLimit(r.len)
                     THEN [q EXCEPT !.pc = "loop", !.lastData = r.body,
                                    !.index = Advance(@)]
                     ELSE IF BytesLen(q.lastData) # 0
                     THEN [q EXCEPT !.pc = "loop",
                                    !.sendDatas = Append(@, q.lastData),
                                    !.lastIndex = q.index - 1,
                                    !.lastData = EmptyBytes,
                                    !.index = Advance(@)]
                     ELSE [q EXCEPT !.pc = "loop",
                                    !.sendDatas = Append(@, r.body),
                                    !.lastIndex = q.index,
                                    !.index = Advance(@)]]
    /\ UNCHANGED <<buildVars, target, sendVars, shared, msgs>>

\* Invocation p, lines 126-129.
ConcFinish(p) ==
    /\ proc[p].pc = "loop"
    /\ proc[p].index > proc[p].alerts.len
    /\ LET sd == IF BytesLen(proc[p].lastData) # 0
                 THEN Append(proc[p].sendDatas, proc[p].data)
                 ELSE proc[p].sendDatas
       IN  proc' = [proc EXCEPT ![p] =
                       [@ EXCEPT !.pc = "done", !.sendDatas = sd,
                                 !.ret = [bodies |-> sd, err |-> Nil]]]
    /\ UNCHANGED <<buildVars, target, sendVars, shared, msgs>>

ConcNext ==
    \E p \in Procs :
        \/ ConcStart(p)
        \/ ConcSetup(p)
        \/ ConcAssign(p)
        \/ ConcRender(p)
        \/ ConcFinish(p)

ConcSpec == ConcInit /\ [][ConcNext]_vars

(***************************************************************************)
(* Properties of Buildv2                                                   *)
(***************************************************************************)
\* The alerts of the message as Buildv2 received it.
Original == IF index = 0 THEN m.Alerts ELSE alerts

\* Buildv2 has returned without an error.
Returned == pc = "done" /\ ret.err = Nil

RECURSIVE ConcatTexts(_)
ConcatTexts(bs) ==
    IF bs = <<>> THEN <<>> ELSE Head(bs).text \o ConcatTexts(Tail(bs))

\* The rendering of the alerts lo+1 .. hi of the original message.
RangeRendering(lo, hi) == ResolvedTmpl([Alerts |-> Slice(Original, lo, hi)])

\* The error Buildv2 reports for a failure at a stage: the template's error
\* unchanged, the encoder's error wrapped.
StageError(s) ==
    IF s = "encoding" THEN "error encoding DingTalk request" ELSE s

\* C1 (coverage): when Buildv2 succeeds on a message of n >= 1 alerts, every
\* returned body renders a non-empty alert range and the ranges, in output
\* order, concatenate to the original alert sequence: nothing is dropped,
\* duplicated or reordered.
C1_Coverage ==
    (Returned /\ Len(Original) >= 1) =>
        /\ \A k \in 1..Len(ret.bodies) : ret.bodies[k].text # <<>>
        /\ ConcatTexts(ret.bodies) = Original

\* C2 (no split): when the serialization of what Build produces for the
\* message is shorter than MAX, Buildv2 returns exactly that serialization
\* as its only body and never enters the scan; at MAX or more it enters
\* the scan.
C2_NoSplit ==
    pc = "done" =>
        LET b == Build([Alerts |-> Original])
            ser == Marshal(b.val)
        IN  (b.err = Nil /\ ser.err = Nil) =>
                IF BytesLen(ser.val) < MAX_MESSAGE_LENGTH
                THEN /\ index = 0
                     /\ ret = [bodies |-> <<ser.val>>, err |-> Nil]
                ELSE index >= 1

\* A message of two or more alerts with a mention is returned unsplit.
C2_Witness ==
    /\ Returned
    /\ index = 0
    /\ Len(ret.bodies) = 1
    /\ Len(m.Alerts) >= 2
    /\ target.Mention

\* C3 (size bound): every returned body is shorter than MAX, except a body
\* that renders exactly one alert.
C3_SizeBound ==
    Returned =>
        \A k \in 1..Len(ret.bodies) :
            \/ BytesLen(ret.bodies[k]) < MAX_MESSAGE_LENGTH
            \/ Len(ret.bodies[k].text) = 1

\* C4 (final flush): on the split path, when alerts remain after the last
\* cut point at the end of the scan, the last returned body renders exactly
\* the alerts from the last cut point to the end.
C4_FinalFlush ==
    (Returned /\ index >= 1 /\ lastIndex < Len(alerts)) =>
        /\ ret.bodies # <<>>
        /\ ret.bodies[Len(ret.bodies)].text
               = Slice(alerts, lastIndex, Len(alerts))

\* C5 (oversized single alert): an alert whose one-alert rendering is MAX or
\* longer is rendered by a body of its own, and by no body together with
\* other alerts.
C5_OversizedAlone ==
    Returned =>
        \A i \in 1..Len(Original) :
            LET own == RangeRendering(i - 1, i)
            IN  (own.err = Nil /\ own.len >= MAX_MESSAGE_LENGTH) =>
                    /\ \E k \in 1..Len(ret.bodies) :
                           ret.bodies[k].text = <<Original[i]>>
                    /\ \A k \in 1..Len(ret.bodies) :
                           (\E j \in 1..Len(ret.bodies[k].text) :
                                ret.bodies[k].text[j].id = i)
                           => Len(ret.bodies[k].text) = 1

\* C6 (greedy maximality): a returned body shorter than MAX that is followed
\* by another body renders the largest range that fits from its cut point:
\* the range extended by the next alert renders at MAX or more, and the
\* next body begins with that alert.
C6_Greedy ==
    Returned =>
        \A k \in 1..(Len(ret.bodies) - 1) :
            BytesLen(ret.bodies[k]) < MAX_MESSAGE_LENGTH =>
                LET t == ret.bodies[k].text
                    first == t[1].id
                    last == t[Len(t)].id
                IN  /\ last < Len(Original)
                    /\ RangeRendering(first - 1, last + 1).len
                           >= MAX_MESSAGE_LENGTH
                    /\ ret.bodies[k + 1].text # <<>>
                    /\ ret.bodies[k + 1].text[1].id = last + 1

\* C7 (render failure aborts): once a rendering made by Buildv2 has failed,
\* Buildv2 has returned that error and no bodies; it never returns bodies
\* together with an error.
C7_RenderFailureAborts ==
    /\ (pc # "start" /\ FaultHits(m.Alerts)) =>
           /\ pc = "done"
           /\ ret = [bodies |-> <<>>, err |-> StageError(tmpl.stage)]
    /\ (pc = "done" /\ ret.err # Nil) =>
           /\ ret.bodies = <<>>
           /\ FaultHits(m.Alerts)

\* A rendering failed after a batch had been accumulated.
C7_Witness ==
    /\ pc = "done"
    /\ ret.err # Nil
    /\ sendDatas # <<>>

\* C10 (termination): Buildv2 returns; it renders at most n + 1 times, and
\* every iteration that stays in the scan advances the index, which never
\* passes n + 1.
C10_Termination ==
    /\ [](renders <= Len(Original) + 1)
    /\ [][(pc = "loop" /\ pc' = "loop") =>
              (index' > index /\ index' <= Len(alerts) + 1)]_vars
    /\ <>(pc = "done")

\* A scan over a message with an oversized alert ran to the end.
C10_Witness ==
    /\ Returned
    /\ Len(alerts) >= 3
    /\ index = Len(alerts) + 1
    /\ renders = Len(alerts) + 1
    /\ \E i \in 1..Len(alerts) :
           RangeRendering(i - 1, i).len >= MAX_MESSAGE_LENGTH

(***************************************************************************)
(* Properties of SendNotification and SendNotificationV2                   *)
(***************************************************************************)
\* The values of a key in a URL's query, in order.
ValuesOf(u, k) ==
    LET hits == SelectSeq(u.RawQuery, LAMBDA kv : kv[1] = k)
    IN  [i \in 1..Len(hits) |-> hits[i][2]]

\* C8 (signing on every delivery path): every request handed to the HTTP
\* client, by SendNotification or by SendNotificationV2, goes to the target
\* URL unmodified when the target's secret is empty, and otherwise carries
\* exactly one timestamp and one sign parameter, those of this call.
C8_SignedEveryPath ==
    \A i \in 1..Len(posted) :
        LET u == posted[i].url
        IN  /\ posted[i].method = "POST"
            /\ IF target.Secret = ""
               THEN u = target.URL
               ELSE /\ ValuesOf(u, "timestamp") = <<ToString(now)>>
                    /\ ValuesOf(u, "sign")
                           = <<Signature(target.Secret, ToString(now))>>
                    /\ ValuesOf(u, "access_token")
                           = ValuesOf(target.URL, "access_token")

\* C9 (response body release): a delivery call that received a response has,
\* when it returns, drained and then closed the response body, as the last
\* two things done to it and once only, whatever the outcome; a status other
\* than 200 returns the status-code error and no response value.
C9_BodyReleased ==
    (sendPc = "returned" /\ resp # NoResp) =>
        /\ Len(bodyOps) >= 2
        /\ SubSeq(bodyOps, Len(bodyOps) - 1, Len(bodyOps)) = <<"drain", "close">>
        /\ \A i \in 1..(Len(bodyOps) - 2) : bodyOps[i] = "decode"
        /\ resp.StatusCode # 200 =>
               sendRet = [resp |-> NilRobotResp,
                          err |-> "unacceptable response code "
                                  \o ToString(resp.StatusCode)]
        /\ (resp.StatusCode = 200 /\ resp.content = "garbage") =>
               sendRet = [resp |-> NilRobotResp,
                          err |-> "error decoding response from DingTalk"]
        /\ (resp.StatusCode = 200 /\ resp.content # "garbage") =>
               (sendRet.err = Nil /\ sendRet.resp.set)

\* SendNotificationV2 returned after an HTTP 500.
C9_Witness ==
    /\ sendPc = "returned"
    /\ call.fn = "SendNotificationV2"
    /\ resp # NoResp
    /\ resp.StatusCode = 500
    /\ bodyOps = <<"drain", "close">>

(***************************************************************************)
(* Frame of Buildv2                                                        *)
(***************************************************************************)
\* C11 (frame of Split): when Buildv2 has returned, on every path, the
\* caller's WebhookMessage is what it was on entry: the same alerts
\* sequence, the same status, group labels and common labels.
C11_MessageUnchanged ==
    pc = "done" => m = entry

(***************************************************************************)
(* Properties of concurrent invocations                                    *)
(***************************************************************************)
\* The sequential Buildv2 returns what SoloBuildv2 computes.
SoloAgrees == pc = "done" => ret = SoloBuildv2(entry.Alerts)

\* C12 (intermediate slicing is not isolated): an invocation of Buildv2
\* returns something other than its solo run only when it shares the
\* instance with the other invocation and has read an alert range it did
\* not write itself; invocations that work on a clone each never read a
\* foreign range and, in every interleaving, return what the solo run
\* returns.
C12_ClonesIsolated ==
    \A p \in Procs :
        /\ ~shared => (~proc[p].foreign /\ proc[p].pc # "crashed")
        /\ proc[p].pc = "done" =>
               (proc[p].ret # SoloBuildv2(entry.Alerts) =>
                    (shared /\ proc[p].foreign))

\* On a shared instance, an invocation whose assignment was overwritten
\* before its render read it has returned bodies that are not the solo
\* run's.
C12_Witness ==
    /\ shared
    /\ \E p \in Procs :
           /\ proc[p].pc = "done"
           /\ proc[p].overwritten
           /\ proc[p].ret.err = Nil
           /\ SoloBuildv2(entry.Alerts).err = Nil
           /\ proc[p].ret.bodies # SoloBuildv2(entry.Alerts).bodies

=============================================================================
